---------------------------- MODULE Spec2Model ----------------------------
(***************************************************************************)
(* Data-access layer of the French->Wolof translation validator.          *)
(*                                                                         *)
(* The repository ships several interchangeable stores behind the same    *)
(* eleven operations: the localStorage store (browser-db), the IndexedDB  *)
(* store (db.js), the SQLite store (sqlite-db.js) and its browser stub    *)
(* (sqlite-db-mock.js).  The variable backend fixes which one is active.   *)
(*                                                                         *)
(* Text is a sequence of tokens.  A token is a separator character        *)
(* (comma, newline, blank, double quote) or an unbreakable piece of text  *)
(* without separators (a word, a user name, a rendered timestamp).        *)
(***************************************************************************)
EXTENDS Integers, Sequences, FiniteSets, TLC

VARIABLES
  backend,       \* the store implementation behind the bridge
  translations,  \* the translation collection, in insertion order
  nextId,        \* key generator of the IndexedDB and SQLite stores
  now,           \* the clock read by Date.now() and new Date()
  calls,         \* number of writing calls made so far
  last,          \* the latest call: operation, arguments, outcome
  users,         \* the user collection, in insertion order
  bridge,        \* one store per implementation, driven by the same calls
  race,          \* the updateTranslation calls in flight
  call,          \* a call on its way to its result, and the initializer
  ui             \* the review screen of each reviewer

vars ==
  <<backend, translations, nextId, now, calls, last, users, bridge, race,
    call, ui>>

\* the state outside the store operations on translations
aux == <<users, bridge, race, call, ui>>

---------------------------------------------------------------------------
(* Bounds of the model *)

MaxTime == 2

MaxRecords == 2

\* writing calls (import, update) in one run
MaxCalls == 4

---------------------------------------------------------------------------
(* Text *)

NL == "\n"
CM == ","
SP == " "
QT == "\""

Whitespace == {SP, NL}

NULL == "null"

\* JS undefined in a text field; a template literal renders it as "undefined"
Undefined == <<"undefined">>

Backends == {"browser", "indexeddb", "sqlite", "mock"}

\* String.prototype.split with a one-character separator
RECURSIVE Split(_, _)
Split(s, sep) ==
  IF \A i \in 1..Len(s) : s[i] # sep
  THEN <<s>>
  ELSE LET k == CHOOSE i \in 1..Len(s) :
                  s[i] = sep /\ \A j \in 1..(i - 1) : s[j] # sep
       IN  <<SubSeq(s, 1, k - 1)>> \o Split(SubSeq(s, k + 1, Len(s)), sep)

\* Array.prototype.join
RECURSIVE Join(_, _)
Join(parts, sep) ==
  IF Len(parts) = 0 THEN <<>>
  ELSE IF Len(parts) = 1 THEN parts[1]
  ELSE parts[1] \o <<sep>> \o Join(Tail(parts), sep)

\* String.prototype.trim
RECURSIVE Trim(_)
Trim(s) ==
  IF Len(s) = 0 THEN s
  ELSE IF s[1] \in Whitespace THEN Trim(Tail(s))
  ELSE IF s[Len(s)] \in Whitespace THEN Trim(SubSeq(s, 1, Len(s) - 1))
  ELSE s

\* Date.prototype.toISOString: one token without separators
ToISOString(t) == <<"T" \o ToString(t)>>

---------------------------------------------------------------------------
(* CSV import *)

NoRow == [ok |-> FALSE, wolof |-> <<>>, french |-> <<>>]

\* The body of the import loop up to the insertion: the row a line yields
ParseLine(rawLine) ==
  LET line == Trim(rawLine)
      parts == Split(line, CM)
      wolof == Trim(parts[1])
      french == Trim(Join(Tail(parts), CM))
  IN  IF line = <<>> THEN NoRow
      ELSE IF Len(parts) < 2 THEN NoRow
      ELSE IF french = <<>> \/ wolof = <<>> THEN NoRow
      ELSE [ok |-> TRUE, wolof |-> wolof, french |-> french]

\* lines.slice(1) mapped through the loop body, rows that are skipped dropped
RECURSIVE RowsOf(_)
RowsOf(lines) ==
  IF Len(lines) = 0 THEN <<>>
  ELSE LET row == ParseLine(Head(lines))
       IN  (IF row.ok THEN <<row>> ELSE <<>>) \o RowsOf(Tail(lines))

DataRows(csvData) == RowsOf(Tail(Split(csvData, NL)))

NewTranslation(id, row, t) ==
  [id |-> id, french |-> row.french, wolof |-> row.wolof,
   status |-> "pending", validatedBy |-> NULL, correctedBy |-> NULL,
   hasBeenCorrected |-> FALSE, originalWolof |-> row.wolof,
   lastUpdated |-> t]

\* browser-db: reads the stored array, not the array being built
translationExists(stored, french, wolof) ==
  \E i \in 1..Len(stored) : stored[i].french = french /\ stored[i].wolof = wolof

\* the loop of the localStorage import; t is Date.now(), read within one
\* clock value for all rows of a call
RECURSIVE BrowserImportRows(_, _, _, _, _)
BrowserImportRows(rows, stored, acc, addedCount, t) ==
  IF Len(rows) = 0 THEN acc
  ELSE LET row == Head(rows)
       IN  IF translationExists(stored, row.french, row.wolof)
           THEN BrowserImportRows(Tail(rows), stored, acc, addedCount, t)
           ELSE BrowserImportRows(Tail(rows), stored,
                  Append(acc, NewTranslation(t + addedCount, row, t)),
                  addedCount + 1, t)

BrowserImport(stored, csvData, t) ==
  BrowserImportRows(DataRows(csvData), stored, stored, 0, t)

\* db.js: store.add for every row, the key generator assigns the id
RECURSIVE IdbImportRows(_, _, _, _)
IdbImportRows(rows, acc, key, t) ==
  IF Len(rows) = 0 THEN acc
  ELSE IdbImportRows(Tail(rows),
         Append(acc, NewTranslation(key, Head(rows), t)), key + 1, t)

IdbImport(stored, csvData, key, t) ==
  IdbImportRows(DataRows(csvData), stored, key, t)

\* sqlite-db.js: UNIQUE(french, wolof) of the translations table
UniqueConflict(table, french, wolof) ==
  \E i \in 1..Len(table) : table[i].french = french /\ table[i].wolof = wolof

\* sqlite-db.js: INSERT OR IGNORE for every row inside one transaction
RECURSIVE SqliteImportRows(_, _, _, _)
SqliteImportRows(rows, acc, key, t) ==
  IF Len(rows) = 0 THEN acc
  ELSE LET row == Head(rows)
       IN  IF UniqueConflict(acc, row.french, row.wolof)
           THEN SqliteImportRows(Tail(rows), acc, key, t)
           ELSE SqliteImportRows(Tail(rows),
                  Append(acc, NewTranslation(key, row, t)), key + 1, t)

SqliteImport(stored, csvData, key, t) ==
  SqliteImportRows(DataRows(csvData), stored, key, t)

\* The store after importTranslationsFromCSV(csvData) on backend b
ImportResult(b, stored, csvData, key, t) ==
  CASE b = "browser"   -> BrowserImport(stored, csvData, t)
    [] b = "indexeddb" -> IdbImport(stored, csvData, key, t)
    [] b = "sqlite"    -> SqliteImport(stored, csvData, key, t)
    [] b = "mock"      -> stored

\* The array or table an import has built when it has processed k data rows
PartialImport(b, stored, csvData, k, key, t) ==
  LET rows == SubSeq(DataRows(csvData), 1, k)
  IN  CASE b = "browser"   -> BrowserImportRows(rows, stored, stored, 0, t)
        [] b = "indexeddb" -> IdbImportRows(rows, stored, key, t)
        [] b = "sqlite"    -> SqliteImportRows(rows, stored, key, t)
        [] b = "mock"      -> stored

\* an import that saves what it has built when it fails
AbortedImportKeepsRows(b, stored, built) == built

\* The store after an import that throws part-way: the localStorage array is
\* saved by the one setItem at the end, which is not reached; the SQLite and
\* IndexedDB transactions roll back
AbortedImport(b, stored, built) == stored

---------------------------------------------------------------------------
(* Queries *)

\* the list without the status filter
PendingUnfiltered(ts) == ts

\* translations.filter(t => t.status === 'pending')
PendingTranslations(ts) == SelectSeq(ts, LAMBDA r : r.status = "pending")

\* translations.filter(t => t.status === 'validated')
ValidatedTranslations(ts) == SelectSeq(ts, LAMBDA r : r.status = "validated")

\* getAllTranslations of the active backend
getAllTranslations(b, ts) == IF b = "mock" THEN <<>> ELSE ts

getValidatedTranslations(b, ts) ==
  IF b = "mock" THEN <<>> ELSE ValidatedTranslations(getAllTranslations(b, ts))

HeaderLine ==
  <<"Wolof", CM, "French", CM, "Status", CM, "ValidatedBy", CM,
    "CorrectedBy", CM, "LastUpdated">>

\* the value rendered without the fallback to the empty string
OrEmptyRaw(x) == <<x>>

\* x || ''
OrEmpty(x) == IF x = NULL THEN <<>> ELSE <<x>>

ExportLine(r) ==
  Join(<< <<QT>> \o r.wolof \o <<QT>>,
          <<QT>> \o r.french \o <<QT>>,
          <<r.status>>,
          OrEmpty(r.validatedBy),
          OrEmpty(r.correctedBy),
          ToISOString(r.lastUpdated) >>, CM)

RECURSIVE ExportLines(_)
ExportLines(vs) ==
  IF Len(vs) = 0 THEN <<>>
  ELSE ExportLine(Head(vs)) \o <<NL>> \o ExportLines(Tail(vs))

exportValidatedTranslationsToCSV(b, ts) ==
  IF b = "mock" THEN HeaderLine \o <<NL>>
  ELSE HeaderLine \o <<NL>> \o ExportLines(getValidatedTranslations(b, ts))

---------------------------------------------------------------------------
(* updateTranslation *)

Fields ==
  {"id", "french", "wolof", "status", "validatedBy", "correctedBy",
   "hasBeenCorrected", "originalWolof", "lastUpdated"}

\* a merge that re-takes the snapshot whenever wolof is updated
MergeResetsOriginal(rec, updates, t) ==
  [f \in Fields |->
     IF f = "lastUpdated" THEN t
     ELSE IF f = "originalWolof" /\ "wolof" \in DOMAIN updates
     THEN updates["wolof"]
     ELSE IF f \in DOMAIN updates THEN updates[f]
     ELSE rec[f]]

\* the spread in the wrong order: the stored fields win over the updates
MergeStoredWins(rec, updates, t) ==
  [f \in Fields |-> IF f = "lastUpdated" THEN t ELSE rec[f]]

\* { ...translation, ...updates, lastUpdated: new Date().toISOString() }
Merge(rec, updates, t) ==
  [f \in Fields |->
     IF f = "lastUpdated" THEN t
     ELSE IF f \in DOMAIN updates THEN updates[f]
     ELSE rec[f]]

\* the spread of an absent record: no field is set
AbsentRecord(key) ==
  [id |-> key, french |-> Undefined, wolof |-> Undefined, status |-> NULL,
   validatedBy |-> NULL, correctedBy |-> NULL, hasBeenCorrected |-> FALSE,
   originalWolof |-> Undefined, lastUpdated |-> 0]

HasId(ts, id) == \E i \in 1..Len(ts) : ts[i].id = id

\* translations.findIndex(t => t.id === id), 1-based; 0 when there is none
findIndex(ts, id) ==
  IF HasId(ts, id)
  THEN CHOOSE i \in 1..Len(ts) :
         ts[i].id = id /\ \A j \in 1..(i - 1) : ts[j].id # id
  ELSE 0

Outcome(ts, status, key) == [ts |-> ts, status |-> status, nextId |-> key]

BrowserUpdate(stored, id, updates, key, t) ==
  LET index == findIndex(stored, id)
  IN  IF index = 0 THEN Outcome(stored, "NotFound", key)
      ELSE Outcome([stored EXCEPT ![index] = Merge(stored[index], updates, t)],
                   "ok", key)

\* db.js: store.get(id) succeeds with undefined for an unknown key, and
\* store.put of a value without id lets the key generator assign one
IdbUpdate(stored, id, updates, key, t) ==
  LET index == findIndex(stored, id)
  IN  IF index = 0
      THEN Outcome(Append(stored, Merge(AbsentRecord(key), updates, t)),
                   "ok", key + 1)
      ELSE Outcome([stored EXCEPT ![index] = Merge(stored[index], updates, t)],
                   "ok", key)

\* sqlite-db.js: SELECT, then UPDATE ... SET under UNIQUE(french, wolof)
SqliteUpdate(stored, id, updates, key, t) ==
  LET index == findIndex(stored, id)
      row == Merge(stored[index], updates, t)
      others == SelectSeq(stored, LAMBDA r : r.id # id)
  IN  IF index = 0 THEN Outcome(stored, "NotFound", key)
      ELSE IF UniqueConflict(others, row.french, row.wolof)
      THEN Outcome(stored, "ConstraintError", key)
      ELSE Outcome([stored EXCEPT ![index] = row], "ok", key)

\* sqlite-db-mock.js: returns { id, ...updates } and stores nothing
MockUpdate(stored, id, updates, key, t) == Outcome(stored, "ok", key)

UpdateResult(b, stored, id, updates, key, t) ==
  CASE b = "browser"   -> BrowserUpdate(stored, id, updates, key, t)
    [] b = "indexeddb" -> IdbUpdate(stored, id, updates, key, t)
    [] b = "sqlite"    -> SqliteUpdate(stored, id, updates, key, t)
    [] b = "mock"      -> MockUpdate(stored, id, updates, key, t)

---------------------------------------------------------------------------
(* Inputs *)

\* the reviewer who validates and the reviewer who corrects
Validator == "Alwaly"

Corrector == "Serge"

\* texts a reviewer types into the correction box
CorrectionTexts == {<<"salaam">>, <<"sa", NL, "lam">>}

HeaderIn == <<"Wolof", CM, "French">>

ScenarioCSV ==
  HeaderIn \o <<NL, "salam", CM, "bonjour",
                NL, "nanga", SP, "def", CM, "comment", SP, "vas-tu">>

RepeatCSV ==
  HeaderIn \o <<NL, "salam", CM, "bonjour", NL, "salam", CM, "bonjour">>

MessyCSV ==
  HeaderIn \o <<NL, SP, "waaw", SP, CM, SP, "oui", CM, SP, "merci", SP,
                NL, NL, "salam", NL, CM, "bonjour", NL, "salam", CM, SP>>

VariantCSV == HeaderIn \o <<NL, "salaam", CM, "bonjour">>

CSVFiles == {ScenarioCSV, RepeatCSV, MessyCSV, VariantCSV}

ValidateUpdate(u) == [status |-> "validated", validatedBy |-> u]

\* a correction that uses the third value of the status comment
CorrectUpdateMarksCorrected(y, u) ==
  [wolof |-> y, status |-> "corrected", correctedBy |-> u,
   hasBeenCorrected |-> TRUE]

CorrectUpdate(y, u) ==
  [wolof |-> y, status |-> "pending", correctedBy |-> u,
   hasBeenCorrected |-> TRUE]

StaleStampUpdate(u) ==
  [status |-> "validated", validatedBy |-> u, lastUpdated |-> 0]

Updates ==
  {ValidateUpdate(Validator), StaleStampUpdate(Validator)}
    \cup {CorrectUpdate(y, Corrector) : y \in CorrectionTexts}

Ids(ts) == {ts[i].id : i \in 1..Len(ts)}

\* an id no stored record has
UnknownId(ts) == IF Len(ts) = 0 THEN 0 ELSE 1 + Len(ts) + now

---------------------------------------------------------------------------
(* State machine *)

NoCall ==
  [op |-> "none", csv |-> <<>>, src |-> "none", twice |-> FALSE,
   id |-> 0, upd |-> <<>>, status |-> "ok", ret |-> <<>>, before |-> <<>>,
   at |-> 0]

Init ==
  /\ backend \in Backends
  /\ translations = <<>>
  /\ nextId = 1
  /\ now = 1
  /\ calls = 0
  /\ last = NoCall
  /\ users = <<>>
  /\ bridge = <<>>
  /\ race = <<>>
  /\ call = <<>>
  /\ ui = <<>>

\* wall-clock time passes between calls
Tick ==
  /\ now < MaxTime
  /\ now' = now + 1
  /\ UNCHANGED <<backend, translations, nextId, calls, last, aux>>

Import(csvData, src) ==
  LET result == ImportResult(backend, translations, csvData, nextId, now)
  IN  /\ calls < MaxCalls
      /\ Len(result) <= MaxRecords
      /\ calls' = calls + 1
      /\ translations' = result
      /\ nextId' = IF backend \in {"indexeddb", "sqlite"}
                   THEN nextId + (Len(result) - Len(translations))
                   ELSE nextId
      /\ last' = [NoCall EXCEPT !.op = "import", !.csv = csvData, !.src = src,
                    !.twice = (/\ last.op = "import"
                               /\ last.status = "ok"
                               /\ last.csv = csvData),
                    !.before = translations, !.at = now]
      /\ UNCHANGED <<backend, now, aux>>

\* importTranslationsFromCSV on a CSV file
ImportFile == \E csvData \in CSVFiles : Import(csvData, "file")

\* importTranslationsFromCSV on the text exportValidatedTranslationsToCSV returns
ImportExported ==
  Import(exportValidatedTranslationsToCSV(backend, translations), "export")

\* importTranslationsFromCSV when the storage layer fails after k rows
ImportFails ==
  \E csvData \in CSVFiles :
    \E k \in 0..Len(DataRows(csvData)) :
      LET built == PartialImport(backend, translations, csvData, k, nextId, now)
      IN  /\ backend # "mock"
          /\ translations' = AbortedImport(backend, translations, built)
          /\ last' = [NoCall EXCEPT !.op = "import", !.csv = csvData,
                        !.src = "file", !.status = "ImportFailure",
                        !.before = translations, !.at = now]
          /\ UNCHANGED <<backend, nextId, now, calls, aux>>

updateTranslation ==
  \E id \in Ids(translations) \cup {UnknownId(translations)}, updates \in Updates :
    LET out == UpdateResult(backend, translations, id, updates, nextId, now)
    IN  /\ calls < MaxCalls
        /\ Len(out.ts) <= MaxRecords
        /\ calls' = calls + 1
        /\ translations' = out.ts
        /\ nextId' = out.nextId
        /\ last' = [NoCall EXCEPT !.op = "update", !.id = id, !.upd = updates,
                      !.status = out.status, !.before = translations, !.at = now]
        /\ UNCHANGED <<backend, now, aux>>

\* Math.floor(Math.random() * length): any index of the pending list
getRandomPendingTranslation ==
  LET pending == PendingTranslations(getAllTranslations(backend, translations))
  IN  /\ \E ret \in {<<>>} \cup {<<pending[i]>> : i \in 1..Len(pending)} :
           /\ (Len(pending) = 0) <=> (ret = <<>>)
           /\ last' = [NoCall EXCEPT !.op = "getRandomPending", !.ret = ret,
                         !.before = translations, !.at = now]
      /\ UNCHANGED <<backend, translations, nextId, now, calls, aux>>

getValidated ==
  /\ last' = [NoCall EXCEPT !.op = "getValidated",
                !.ret = getValidatedTranslations(backend, translations),
                !.before = translations, !.at = now]
  /\ UNCHANGED <<backend, translations, nextId, now, calls, aux>>

exportValidated ==
  /\ last' = [NoCall EXCEPT !.op = "export",
                !.ret = exportValidatedTranslationsToCSV(backend, translations),
                !.before = translations, !.at = now]
  /\ UNCHANGED <<backend, translations, nextId, now, calls, aux>>

Next ==
  \/ Tick
  \/ ImportFile
  \/ ImportExported
  \/ ImportFails
  \/ updateTranslation
  \/ getRandomPendingTranslation
  \/ getValidated
  \/ exportValidated

Spec == Init /\ [][Next]_vars

---------------------------------------------------------------------------
(* Users *)

defaultUsers == <<"Alwaly", "Serge", "Matar">>

\* a test for the name that never finds it
UserExistsNever(us, name) == FALSE

\* users.some(user => user.name === name); index.get(name); UNIQUE(name)
UserExists(us, name) == \E i \in 1..Len(us) : us[i].name = name

\* the next key of the users table or object store
NextUserKey(us) ==
  IF Len(us) = 0 THEN 1
  ELSE 1 + (CHOOSE m \in {us[i].id : i \in 1..Len(us)} :
              \A i \in 1..Len(us) : us[i].id <= m)

\* browser-db: id is Date.now() + users.length; the others: a generated key
NewUser(b, us, name, t) ==
  [id |-> IF b = "browser" THEN t + Len(us) ELSE NextUserKey(us),
   name |-> name]

RECURSIVE AddMissingUsers(_, _, _, _)
AddMissingUsers(b, names, us, t) ==
  IF Len(names) = 0 THEN us
  ELSE AddMissingUsers(b, Tail(names),
         IF UserExists(us, Head(names)) THEN us
         ELSE Append(us, NewUser(b, us, Head(names), t)), t)

\* The user collection after initializeUsers() on backend b
InitializeUsersResult(b, us, t) ==
  IF b = "mock" THEN us ELSE AddMissingUsers(b, defaultUsers, us, t)

MockUsers ==
  <<[id |-> 1, name |-> "Alwaly"], [id |-> 2, name |-> "Serge"],
    [id |-> 3, name |-> "Matar"]>>

getUsers(b, us) == IF b = "mock" THEN MockUsers ELSE us

\* user collections found at start-up: empty, or left by an earlier run
StartingUsers ==
  { <<>>,
    <<[id |-> 1, name |-> "Serge"]>>,
    <<[id |-> 1, name |-> "Awa"]>>,
    <<[id |-> 1, name |-> "Awa"], [id |-> 2, name |-> "Alwaly"]>>,
    <<[id |-> 1, name |-> "Matar"], [id |-> 2, name |-> "Awa"],
      [id |-> 3, name |-> "Serge"]>> }

UsersInit ==
  /\ backend \in Backends
  /\ users \in (IF backend = "mock" THEN {<<>>} ELSE StartingUsers)
  /\ translations = <<>>
  /\ nextId = 1
  /\ now = 1
  /\ calls = 0
  /\ last = NoCall
  /\ bridge = <<>>
  /\ race = <<>>
  /\ call = <<>>
  /\ ui = <<>>

UsersTick ==
  /\ now < MaxTime
  /\ now' = now + 1
  /\ UNCHANGED <<backend, translations, nextId, calls, last, aux>>

initializeUsers ==
  /\ users' = InitializeUsersResult(backend, users, now)
  /\ last' = [NoCall EXCEPT !.op = "initializeUsers",
                !.twice = (last.op = "initializeUsers"),
                !.before = users, !.at = now]
  /\ UNCHANGED <<backend, translations, nextId, now, calls, bridge, race,
                 call, ui>>

getUsersCall ==
  /\ last' = [NoCall EXCEPT !.op = "getUsers",
                !.ret = getUsers(backend, users), !.before = users,
                !.at = now]
  /\ UNCHANGED <<backend, translations, nextId, now, calls, aux>>

UsersNext == UsersTick \/ initializeUsers \/ getUsersCall

SpecUsers == UsersInit /\ [][UsersNext]_vars

---------------------------------------------------------------------------
(* The same calls made on every implementation the bridge can select *)

\* isDatabaseEmpty of the active backend
isDatabaseEmpty(b, ts) == IF b = "mock" THEN TRUE ELSE Len(ts) = 0

FreshStore == [ts |-> <<>>, nextId |-> 1, status |-> "ok"]

BridgeInit ==
  /\ bridge = [b \in Backends |-> FreshStore]
  /\ backend = "browser"
  /\ translations = <<>>
  /\ nextId = 1
  /\ now = 1
  /\ calls = 0
  /\ last = NoCall
  /\ users = <<>>
  /\ race = <<>>
  /\ call = <<>>
  /\ ui = <<>>

BridgeFrame ==
  UNCHANGED <<backend, translations, nextId, last, users, race, call, ui>>

BridgeTick ==
  /\ now < MaxTime
  /\ now' = now + 1
  /\ UNCHANGED <<bridge, calls>>
  /\ BridgeFrame

BridgeImport ==
  \E csvData \in CSVFiles :
    LET after == [b \in Backends |->
                    ImportResult(b, bridge[b].ts, csvData, bridge[b].nextId, now)]
    IN  /\ calls < MaxCalls
        /\ \A b \in Backends : Len(after[b]) <= MaxRecords
        /\ calls' = calls + 1
        /\ bridge' = [b \in Backends |->
                        [ts |-> after[b],
                         nextId |-> IF b \in {"indexeddb", "sqlite"}
                                    THEN bridge[b].nextId
                                           + (Len(after[b]) - Len(bridge[b].ts))
                                    ELSE bridge[b].nextId,
                         status |-> "ok"]]
        /\ UNCHANGED now
        /\ BridgeFrame

BridgeUpdate ==
  \E id \in UNION {Ids(bridge[b].ts) : b \in Backends} \cup {0},
     updates \in Updates :
    LET out == [b \in Backends |->
                  UpdateResult(b, bridge[b].ts, id, updates, bridge[b].nextId, now)]
    IN  /\ calls < MaxCalls
        /\ \A b \in Backends : Len(out[b].ts) <= MaxRecords
        /\ calls' = calls + 1
        /\ bridge' = out
        /\ UNCHANGED now
        /\ BridgeFrame

BridgeNext == BridgeTick \/ BridgeImport \/ BridgeUpdate

SpecBridge == BridgeInit /\ [][BridgeNext]_vars

---------------------------------------------------------------------------
(* The review screen: DataInitializer and TranslationValidator *)

Reviewers == {Validator, Corrector}

NoStats == [total |-> 0, pending |-> 0, validated |-> 0, corrected |-> 0]

\* the state of one reviewer's application before DataInitializer has run
FreshScreen ==
  [initialized |-> FALSE, mounted |-> FALSE, current |-> <<>>,
   edited |-> <<>>, stats |-> NoStats, currentUser |-> NULL,
   isLoading |-> TRUE, userList |-> <<>>, selectedUser |-> ""]

\* !currentUser, !selectedUser: null and the empty string count as absent
Falsy(name) == name \in {NULL, ""}

\* a render that shows the validator to whoever has passed the initializer
ScreenIgnoresLogin(app) ==
  IF ~app.initialized THEN "DataInitializer" ELSE "TranslationValidator"

\* App: the component rendered for the state of one page
Screen(app) ==
  IF ~app.initialized THEN "DataInitializer"
  ELSE IF Falsy(app.currentUser) THEN "Login"
  ELSE "TranslationValidator"

\* updateStats: the counters computed from getAllTranslations()
updateStats(b, ts) ==
  LET all == getAllTranslations(b, ts)
  IN  [total |-> Len(all),
       pending |-> Len(SelectSeq(all, LAMBDA r : r.status = "pending")),
       validated |-> Len(SelectSeq(all, LAMBDA r : r.status = "validated")),
       corrected |-> Len(SelectSeq(all, LAMBDA r : r.status = "corrected"))]

\* the results getRandomPendingTranslation() can give: <<>> is null
RandomPendingResults(b, ts) ==
  LET pending == PendingTranslations(getAllTranslations(b, ts))
  IN  IF Len(pending) = 0 THEN {<<>>}
      ELSE {<<pending[i]>> : i \in 1..Len(pending)}

\* loadRandomTranslation: the screen after the result ret has arrived
Loaded(screen, ret) ==
  [screen EXCEPT !.current = ret,
                 !.edited = IF ret # <<>> THEN ret[1].wolof ELSE @]

\* the header rewrite of DataInitializer for files that start French,Wolof
FixHeader(csvData) ==
  IF Len(csvData) >= 3 /\ SubSeq(csvData, 1, 3) = <<"French", CM, "Wolof">>
  THEN HeaderIn \o SubSeq(csvData, 4, Len(csvData))
  ELSE csvData

\* the file /data/translations.csv that DataInitializer fetches
InitialFiles == {ScenarioCSV, RepeatCSV}

\* what a reviewer types over the suggested text
TypedTexts == {<<"salaam">>}

ReviewInit ==
  /\ backend \in Backends
  /\ translations = <<>>
  /\ nextId = 1
  /\ now = 1
  /\ calls = 0
  /\ last = NoCall
  /\ ui = [r \in Reviewers |-> FreshScreen]
  /\ users = <<>>
  /\ bridge = <<>>
  /\ race = <<>>
  /\ call = <<>>

ReviewFrame == UNCHANGED <<backend, users, bridge, race, call>>

\* DataInitializer.initializeData of reviewer r's application
initializeData(r) ==
  /\ ~ui[r].initialized
  /\ \E csvData \in InitialFiles :
       LET result == IF isDatabaseEmpty(backend, translations)
                     THEN ImportResult(backend, translations,
                                       FixHeader(csvData), nextId, now)
                     ELSE translations
       IN  /\ Len(result) <= MaxRecords
           /\ translations' = result
           /\ nextId' = IF backend \in {"indexeddb", "sqlite"}
                        THEN nextId + (Len(result) - Len(translations))
                        ELSE nextId
  /\ ui' = [ui EXCEPT ![r].initialized = TRUE]
  /\ last' = [NoCall EXCEPT !.op = "initializeData"]
  /\ UNCHANGED <<now, calls>>
  /\ ReviewFrame

\* the effect that runs when TranslationValidator is shown
mount(r) ==
  /\ Screen(ui[r]) = "TranslationValidator"
  /\ ~ui[r].mounted
  /\ \E ret \in RandomPendingResults(backend, translations) :
       ui' = [ui EXCEPT ![r] =
                Loaded([@ EXCEPT !.mounted = TRUE,
                                 !.stats = updateStats(backend, translations)],
                       ret)]
  /\ last' = [NoCall EXCEPT !.op = "mount"]
  /\ UNCHANGED <<translations, nextId, now, calls>>
  /\ ReviewFrame

\* the button Suivant
loadRandomTranslation(r) ==
  /\ ui[r].mounted
  /\ ui[r].current # <<>>
  /\ \E ret \in RandomPendingResults(backend, translations) :
       ui' = [ui EXCEPT ![r] = Loaded(@, ret)]
  /\ last' = [NoCall EXCEPT !.op = "loadRandomTranslation"]
  /\ UNCHANGED <<translations, nextId, now, calls>>
  /\ ReviewFrame

\* typing in the text area
setEditedTranslation(r) ==
  /\ ui[r].mounted
  /\ ui[r].current # <<>>
  /\ \E text \in TypedTexts :
       /\ text # ui[r].edited
       /\ ui' = [ui EXCEPT ![r].edited = text]
  /\ last' = [NoCall EXCEPT !.op = "setEditedTranslation"]
  /\ UNCHANGED <<translations, nextId, now, calls>>
  /\ ReviewFrame

\* the rest of handleValidate and handleCorrect once updateTranslation has
\* answered: on success updateStats and loadRandomTranslation, else nothing
AfterUpdate(r, op, updates, out) ==
  /\ calls < MaxCalls
  /\ calls' = calls + 1
  /\ translations' = out.ts
  /\ nextId' = out.nextId
  /\ last' = [NoCall EXCEPT !.op = op, !.id = ui[r].current[1].id,
                !.upd = updates, !.status = out.status,
                !.ret = ui[r].current]
  /\ IF out.status = "ok"
     THEN \E ret \in RandomPendingResults(backend, out.ts) :
            ui' = [ui EXCEPT ![r] =
                     Loaded([@ EXCEPT !.stats = updateStats(backend, out.ts)],
                            ret)]
     ELSE ui' = ui
  /\ UNCHANGED now
  /\ ReviewFrame

handleValidate(r) ==
  /\ ui[r].mounted
  /\ ui[r].current # <<>>
  /\ LET updates == ValidateUpdate(ui[r].currentUser)
     IN  AfterUpdate(r, "handleValidate", updates,
           UpdateResult(backend, translations, ui[r].current[1].id, updates,
                        nextId, now))

handleCorrect(r) ==
  /\ ui[r].mounted
  /\ ui[r].current # <<>>
  /\ ui[r].edited # ui[r].current[1].wolof
  /\ LET updates == CorrectUpdate(ui[r].edited, ui[r].currentUser)
     IN  AfterUpdate(r, "handleCorrect", updates,
           UpdateResult(backend, translations, ui[r].current[1].id, updates,
                        nextId, now))

\* Login's effect loadUsers: initializeUsers() and getUsers(), or the catch
\* block when the store fails
loadUsers(r) ==
  /\ Screen(ui[r]) = "Login"
  /\ ui[r].isLoading
  /\ \/ /\ users' = InitializeUsersResult(backend, users, now)
        /\ ui' = [ui EXCEPT ![r].isLoading = FALSE,
                            ![r].userList = getUsers(backend, users')]
     \/ /\ backend # "mock"
        /\ users' = users
        /\ ui' = [ui EXCEPT ![r].isLoading = FALSE]
  /\ last' = [NoCall EXCEPT !.op = "loadUsers", !.src = r]
  /\ UNCHANGED <<backend, translations, nextId, now, calls, bridge, race,
                 call>>

\* what reviewer r picks in the select: the placeholder, or the reviewer's
\* own name when the list offers it
SelectableNames(r, userList) ==
  {""} \cup ({userList[i].name : i \in 1..Len(userList)} \cap {r})

\* the select of the login form
setSelectedUser(r) ==
  /\ Screen(ui[r]) = "Login"
  /\ ~ui[r].isLoading
  /\ \E name \in SelectableNames(r, ui[r].userList) :
       /\ name # ui[r].selectedUser
       /\ ui' = [ui EXCEPT ![r].selectedUser = name]
  /\ last' = [NoCall EXCEPT !.op = "setSelectedUser", !.src = r]
  /\ UNCHANGED <<translations, nextId, now, calls>>
  /\ ReviewFrame

\* Login.handleLogin and App.handleLogin; Login is unmounted by the render
handleLogin(r) ==
  /\ Screen(ui[r]) = "Login"
  /\ ~ui[r].isLoading
  /\ ~Falsy(ui[r].selectedUser)
  /\ ui' = [ui EXCEPT ![r].currentUser = ui[r].selectedUser,
                      ![r].isLoading = TRUE, ![r].userList = <<>>,
                      ![r].selectedUser = ""]
  /\ last' = [NoCall EXCEPT !.op = "handleLogin", !.src = r]
  /\ UNCHANGED <<translations, nextId, now, calls>>
  /\ ReviewFrame

\* App.handleLogout; TranslationValidator is unmounted by the render
handleLogout(r) ==
  /\ Screen(ui[r]) = "TranslationValidator"
  /\ ui' = [ui EXCEPT ![r] = [FreshScreen EXCEPT
                                !.initialized = ui[r].initialized]]
  /\ last' = [NoCall EXCEPT !.op = "handleLogout", !.src = r]
  /\ UNCHANGED <<translations, nextId, now, calls>>
  /\ ReviewFrame

ReviewNext ==
  \/ \E r \in Reviewers : initializeData(r)
  \/ \E r \in Reviewers : loadUsers(r)
  \/ \E r \in Reviewers : setSelectedUser(r)
  \/ \E r \in Reviewers : handleLogin(r)
  \/ \E r \in Reviewers : handleLogout(r)
  \/ \E r \in Reviewers : mount(r)
  \/ \E r \in Reviewers : loadRandomTranslation(r)
  \/ \E r \in Reviewers : setEditedTranslation(r)
  \/ \E r \in Reviewers : handleValidate(r)
  \/ \E r \in Reviewers : handleCorrect(r)

SpecReview == ReviewInit /\ [][ReviewNext]_vars

---------------------------------------------------------------------------
(* Two reviewers' pages calling updateTranslation at the same time *)

\* a reviewer's call before it is issued
NoUpdateCall == [pc |-> "idle", op |-> "none", id |-> 0, upd |-> <<>>,
                 csv |-> <<>>, snap |-> <<>>, status |-> "none"]

\* what reviewer r's page can send: handleValidate or handleCorrect
RaceUpdates(r) ==
  {ValidateUpdate(r)} \cup {CorrectUpdate(y, r) : y \in CorrectionTexts}

\* the store both pages share when the first call is issued
RaceStores(b) ==
  {ImportResult(b, <<>>, csvData, 1, 1) :
     csvData \in InitialFiles \cup {VariantCSV}}

RaceInit ==
  /\ backend \in Backends
  /\ translations \in RaceStores(backend)
  /\ nextId = IF backend \in {"indexeddb", "sqlite"}
              THEN Len(translations) + 1 ELSE 1
  /\ now = 1
  /\ calls = 0
  /\ last = NoCall
  /\ race = [base |-> translations, p |-> [r \in Reviewers |-> NoUpdateCall]]
  /\ users = <<>>
  /\ bridge = <<>>
  /\ call = <<>>
  /\ ui = <<>>

RaceFrame == UNCHANGED <<backend, now, calls, last, users, bridge, call, ui>>

\* reviewer r's page calls updateTranslation(id, updates) and waits for
\* initDB() / getDB()
issueUpdate(r) ==
  /\ race.p[r].pc = "idle"
  /\ \E id \in (IF backend = "mock" THEN {1} ELSE Ids(translations)),
        updates \in RaceUpdates(r) :
       race' = [race EXCEPT
                  !.p[r] = [NoUpdateCall EXCEPT !.pc = "waiting",
                                                !.op = "update", !.id = id,
                                                !.upd = updates],
                  !.base = IF \A q \in Reviewers : race.p[q].pc = "idle"
                           THEN translations ELSE @]
  /\ UNCHANGED <<translations, nextId>>
  /\ RaceFrame

\* reviewer r's page calls importTranslationsFromCSV(csvData) and waits for
\* initDB() / getDB()
issueImport(r) ==
  /\ race.p[r].pc = "idle"
  /\ \E csvData \in CSVFiles :
       race' = [race EXCEPT
                  !.p[r] = [NoUpdateCall EXCEPT !.pc = "waiting",
                                                !.op = "import",
                                                !.csv = csvData],
                  !.base = IF \A q \in Reviewers : race.p[q].pc = "idle"
                           THEN translations ELSE @]
  /\ UNCHANGED <<translations, nextId>>
  /\ RaceFrame

\* localStorage: JSON.parse(localStorage.getItem(TRANSLATIONS_KEY)) in r's page
readStorage(r) ==
  /\ backend = "browser"
  /\ race.p[r].pc = "waiting"
  /\ race' = [race EXCEPT !.p[r].pc = "read", !.p[r].snap = translations]
  /\ UNCHANGED <<translations, nextId>>
  /\ RaceFrame

\* localStorage: findIndex and the merge on the array r's page has read, then
\* localStorage.setItem of that whole array
writeStorage(r) ==
  /\ backend = "browser"
  /\ race.p[r].op = "update"
  /\ race.p[r].pc = "read"
  /\ LET out == BrowserUpdate(race.p[r].snap, race.p[r].id, race.p[r].upd,
                              nextId, now)
     IN  /\ translations' = IF out.status = "ok" THEN out.ts ELSE translations
         /\ race' = [race EXCEPT !.p[r].pc = "done",
                                 !.p[r].status = out.status]
  /\ UNCHANGED nextId
  /\ RaceFrame

\* IndexedDB: get and put in one readwrite transaction; SQLite and the stub:
\* a function body without await
applyUpdate(r) ==
  /\ backend # "browser"
  /\ race.p[r].op = "update"
  /\ race.p[r].pc = "waiting"
  /\ LET out == UpdateResult(backend, translations, race.p[r].id,
                             race.p[r].upd, nextId, now)
     IN  /\ translations' = out.ts
         /\ nextId' = out.nextId
         /\ race' = [race EXCEPT !.p[r].pc = "done",
                                 !.p[r].status = out.status]
  /\ RaceFrame

\* localStorage: the rows are pushed on the array r's page has read, then
\* localStorage.setItem of that whole array
writeImport(r) ==
  /\ backend = "browser"
  /\ race.p[r].op = "import"
  /\ race.p[r].pc = "read"
  /\ LET ts == BrowserImport(race.p[r].snap, race.p[r].csv, now)
     IN  /\ Len(ts) <= MaxRecords
         /\ translations' = ts
         /\ race' = [race EXCEPT !.p[r].pc = "done", !.p[r].status = "ok"]
  /\ UNCHANGED nextId
  /\ RaceFrame

\* IndexedDB: every store.add in one readwrite transaction; SQLite and the
\* stub: a function body without await
applyImport(r) ==
  /\ backend # "browser"
  /\ race.p[r].op = "import"
  /\ race.p[r].pc = "waiting"
  /\ LET ts == ImportResult(backend, translations, race.p[r].csv, nextId, now)
     IN  /\ Len(ts) <= MaxRecords
         /\ translations' = ts
         /\ nextId' = IF backend \in {"indexeddb", "sqlite"}
                      THEN nextId + (Len(ts) - Len(translations)) ELSE nextId
         /\ race' = [race EXCEPT !.p[r].pc = "done", !.p[r].status = "ok"]
  /\ RaceFrame

RaceNext ==
  \/ \E r \in Reviewers : issueUpdate(r)
  \/ \E r \in Reviewers : issueImport(r)
  \/ \E r \in Reviewers : readStorage(r)
  \/ \E r \in Reviewers : writeStorage(r)
  \/ \E r \in Reviewers : writeImport(r)
  \/ \E r \in Reviewers : applyUpdate(r)
  \/ \E r \in Reviewers : applyImport(r)

SpecRace == RaceInit /\ [][RaceNext]_vars

---------------------------------------------------------------------------
(* One call of a store operation, from the call to its settled promise *)

CallOps ==
  {"importTranslationsFromCSV", "getAllTranslations",
   "getRandomPendingTranslation", "updateTranslation", "isDatabaseEmpty",
   "getValidatedTranslations", "initializeUsers", "getUsers",
   "exportValidatedTranslationsToCSV"}

\* db.js: the operations whose promise is settled by transaction.oncomplete
\* and transaction.onerror; the others are settled by their request's events
TransactionSettled == {"importTranslationsFromCSV", "initializeUsers"}

\* the operations that write to the store
WriteOps == TransactionSettled \cup {"updateTranslation"}

Settled == {"idle", "returned", "failed"}

\* what the storage layer does for operation op when nothing fails: the
\* store, the users and the status it ends with. No other call runs before
\* this one has settled, so it is worked out when the call is made.
CallOutcome(op, csvData, id) ==
  LET out ==
        CASE op = "importTranslationsFromCSV" ->
               LET ts == ImportResult(backend, translations, csvData, nextId, now)
               IN  Outcome(ts, "ok",
                           IF backend \in {"indexeddb", "sqlite"}
                           THEN nextId + (Len(ts) - Len(translations))
                           ELSE nextId)
          [] op = "updateTranslation" ->
               UpdateResult(backend, translations, id,
                            ValidateUpdate(Validator), nextId, now)
          [] OTHER -> Outcome(translations, "ok", nextId)
  IN  [ts |-> out.ts, nextId |-> out.nextId, status |-> out.status,
       users |-> IF op = "initializeUsers"
                 THEN InitializeUsersResult(backend, users, now) ELSE users]

NoPending ==
  [op |-> "none", pc |-> "idle", txn |-> "none", csv |-> <<>>, id |-> 0,
   caller |-> "app", initializer |-> "off",
   result |-> [ts |-> <<>>, nextId |-> 1, status |-> "ok", users |-> <<>>]]

CallsInit ==
  /\ backend \in Backends
  /\ translations = <<>>
  /\ nextId = 1
  /\ now = 1
  /\ calls = 0
  /\ last = NoCall
  /\ users = <<>>
  /\ call = NoPending
  /\ bridge = <<>>
  /\ race = <<>>
  /\ ui = <<>>

CallsFrame == UNCHANGED <<backend, now, last, bridge, race, ui>>

StoreUnchanged == UNCHANGED <<translations, nextId, users>>

\* the promise is fulfilled, or rejected when the operation itself refuses
Completes ==
  /\ translations' = call.result.ts
  /\ nextId' = call.result.nextId
  /\ users' = call.result.users
  /\ call' = [call EXCEPT !.pc = IF call.result.status = "ok"
                                 THEN "returned" ELSE "failed",
                          !.txn = IF @ = "none" THEN @ ELSE "complete"]

\* the application calls one operation and awaits its promise
callOperation ==
  /\ call.pc \in Settled
  /\ call.initializer # "running"
  /\ calls < MaxCalls
  /\ \E op \in CallOps :
       \E csvData \in (IF op = "importTranslationsFromCSV"
                       THEN InitialFiles ELSE {<<>>}),
          id \in (IF op = "updateTranslation"
                  THEN Ids(translations) \cup {0} ELSE {0}) :
         /\ Len(CallOutcome(op, csvData, id).ts) <= MaxRecords
         /\ call' = [call EXCEPT !.op = op, !.pc = "called", !.txn = "none",
                                 !.csv = csvData, !.id = id, !.caller = "app",
                                 !.result = CallOutcome(op, csvData, id)]
  /\ calls' = calls + 1
  /\ StoreUnchanged
  /\ CallsFrame

\* DataInitializer's effect starts initializeData, which awaits isDatabaseEmpty
startInitializer ==
  /\ call.pc \in Settled
  /\ call.initializer = "off"
  /\ call' = [call EXCEPT !.op = "isDatabaseEmpty", !.pc = "called",
                          !.txn = "none", !.csv = <<>>, !.id = 0,
                          !.caller = "initializeData",
                          !.initializer = "running",
                          !.result = CallOutcome("isDatabaseEmpty", <<>>, 0)]
  /\ UNCHANGED calls
  /\ StoreUnchanged
  /\ CallsFrame

\* initializeData after the awaited call has settled: the fetch of the file
\* when isDatabaseEmpty() answered true, else onInitialized() (from the try
\* block or from the catch block)
initializerContinues ==
  /\ call.caller = "initializeData"
  /\ call.initializer = "running"
  /\ call.pc \in {"returned", "failed"}
  /\ call' = IF /\ call.op = "isDatabaseEmpty"
                /\ call.pc = "returned"
                /\ isDatabaseEmpty(backend, translations)
             THEN [call EXCEPT !.op = "fetch", !.pc = "fetching"]
             ELSE [call EXCEPT !.caller = "app", !.initializer = "signalled"]
  /\ UNCHANGED calls
  /\ StoreUnchanged
  /\ CallsFrame

\* initializeData: the file has arrived; the header is rewritten when needed
\* and importTranslationsFromCSV is called and awaited
fetchReturns ==
  /\ call.pc = "fetching"
  /\ \E csvData \in InitialFiles :
       call' = [call EXCEPT
                  !.op = "importTranslationsFromCSV", !.pc = "called",
                  !.txn = "none", !.csv = FixHeader(csvData),
                  !.result = CallOutcome("importTranslationsFromCSV",
                                         FixHeader(csvData), 0)]
  /\ UNCHANGED calls
  /\ StoreUnchanged
  /\ CallsFrame

\* initializeData: fetch rejects and the catch block calls onInitialized()
fetchFails ==
  /\ call.pc = "fetching"
  /\ call' = [call EXCEPT !.pc = "failed", !.caller = "app",
                          !.initializer = "signalled"]
  /\ UNCHANGED calls
  /\ StoreUnchanged
  /\ CallsFrame

\* localStorage, SQLite and the stub: the body runs to its return or throw
\* without waiting for an event
runsToEnd ==
  /\ backend # "indexeddb"
  /\ call.pc = "called"
  /\ Completes
  /\ UNCHANGED calls
  /\ CallsFrame

\* localStorage or SQLite throws while a write operation runs
storageThrows ==
  /\ backend \in {"browser", "sqlite"}
  /\ call.pc = "called"
  /\ call.op \in WriteOps
  /\ call' = [call EXCEPT !.pc = "failed"]
  /\ UNCHANGED calls
  /\ StoreUnchanged
  /\ CallsFrame

\* db.js: indexedDB.open succeeds; the transaction is created and the
\* operation's requests are placed
openSucceeds ==
  /\ backend = "indexeddb"
  /\ call.pc = "called"
  /\ call' = [call EXCEPT !.pc = "opened", !.txn = "active"]
  /\ UNCHANGED calls
  /\ StoreUnchanged
  /\ CallsFrame

\* db.js: request.onerror of indexedDB.open rejects
openFails ==
  /\ backend = "indexeddb"
  /\ call.pc = "called"
  /\ call' = [call EXCEPT !.pc = "failed"]
  /\ UNCHANGED calls
  /\ StoreUnchanged
  /\ CallsFrame

\* db.js: request.onsuccess of getAll, or of get and then put, resolves
requestSucceeds ==
  /\ backend = "indexeddb"
  /\ call.pc = "opened"
  /\ call.txn = "active"
  /\ call.op \notin TransactionSettled
  /\ Completes
  /\ UNCHANGED calls
  /\ CallsFrame

\* db.js: a request fails; its error event reaches request.onerror, or
\* bubbles to transaction.onerror, and the transaction aborts
requestFails ==
  /\ backend = "indexeddb"
  /\ call.pc = "opened"
  /\ call.txn = "active"
  /\ call' = [call EXCEPT !.pc = "failed", !.txn = "aborted"]
  /\ UNCHANGED calls
  /\ StoreUnchanged
  /\ CallsFrame

\* db.js: every store.add / index.get of the transaction has succeeded and
\* the transaction starts to commit
requestsDone ==
  /\ backend = "indexeddb"
  /\ call.pc = "opened"
  /\ call.txn = "active"
  /\ call.op \in TransactionSettled
  /\ call' = [call EXCEPT !.txn = "committing"]
  /\ UNCHANGED calls
  /\ StoreUnchanged
  /\ CallsFrame

\* db.js: transaction.oncomplete resolves
commitSucceeds ==
  /\ backend = "indexeddb"
  /\ call.txn = "committing"
  /\ Completes
  /\ UNCHANGED calls
  /\ CallsFrame

\* db.js: the commit fails (quota, disk); the transaction gets an abort
\* event and no error event, and no onabort handler is registered
commitFails ==
  /\ backend = "indexeddb"
  /\ call.txn = "committing"
  /\ call' = [call EXCEPT !.txn = "aborted"]
  /\ UNCHANGED calls
  /\ StoreUnchanged
  /\ CallsFrame

\* the steps that happen without the user: continuations and storage events
Delivered ==
  \/ initializerContinues
  \/ fetchFails
  \/ runsToEnd
  \/ openSucceeds
  \/ requestSucceeds
  \/ requestsDone
  \/ commitSucceeds

CallsNext ==
  \/ callOperation
  \/ startInitializer
  \/ initializerContinues
  \/ fetchReturns
  \/ fetchFails
  \/ runsToEnd
  \/ storageThrows
  \/ openSucceeds
  \/ openFails
  \/ requestSucceeds
  \/ requestFails
  \/ requestsDone
  \/ commitSucceeds
  \/ commitFails

\* continuations run and storage events that are due are delivered
SpecCalls == CallsInit /\ [][CallsNext]_vars /\ WF_vars(Delivered)

---------------------------------------------------------------------------
(* Properties *)

IsValidated(r) == r.status = "validated"

IsPending(r) == r.status = "pending"

ValidatedNow == SelectSeq(translations, IsValidated)

IsCorrection(updates) ==
  /\ DOMAIN updates = {"wolof", "status", "correctedBy", "hasBeenCorrected"}
  /\ updates.status = "pending"
  /\ updates.hasBeenCorrected

IsValidation(updates) ==
  /\ {"status", "validatedBy"} \subseteq DOMAIN updates
  /\ updates.status = "validated"

\* C1: an import of the text that the call just before it imported adds no
\* record: the store has as many records after it as before it.
C1_ImportIdempotent ==
  (last.op = "import" /\ last.twice) => Len(translations) = Len(last.before)

\* C2: no two stored records have the same pair (french, originalWolof).
C2_PairUnique ==
  \A i, j \in 1..Len(translations) :
    i # j => ~(/\ translations[i].french = translations[j].french
               /\ translations[i].originalWolof = translations[j].originalWolof)

\* C3: an update whose id matches no stored record fails with NotFound and
\* leaves the collection as it was.
C3_UnknownIdNotFound ==
  (last.op = "update" /\ ~HasId(last.before, last.id))
    => (last.status = "NotFound" /\ translations = last.before)

\* C4: an update of an existing id leaves the record with the given value in
\* every field named in updates, lastUpdated set to the time of the call, all
\* its other fields as before, and all other records as before.
C4_UpdateMerges ==
  (last.op = "update" /\ HasId(last.before, last.id))
    => \E i \in 1..Len(last.before) :
         /\ last.before[i].id = last.id
         /\ Len(translations) = Len(last.before)
         /\ \A j \in 1..Len(last.before) :
              j # i => translations[j] = last.before[j]
         /\ translations[i].lastUpdated = last.at
         /\ \A f \in Fields \ {"lastUpdated"} :
              translations[i][f] = IF f \in DOMAIN last.upd
                                   THEN last.upd[f]
                                   ELSE last.before[i][f]

\* C5: after a successful validation of an existing record by X, the list of
\* validated translations holds that record exactly once, with validatedBy X,
\* and holds only records whose status is validated.
C5_ValidatedListed ==
  (/\ last.op = "update"
   /\ last.status = "ok"
   /\ HasId(last.before, last.id)
   /\ IsValidation(last.upd))
    => LET vs == getValidatedTranslations(backend, translations)
       IN  /\ Cardinality({i \in 1..Len(vs) : vs[i].id = last.id}) = 1
           /\ \A i \in 1..Len(vs) :
                /\ vs[i].status = "validated"
                /\ vs[i].id = last.id => vs[i].validatedBy = last.upd.validatedBy

C5_Witness ==
  /\ last.op = "update"
  /\ last.status = "ok"
  /\ IsValidation(last.upd)
  /\ \E i \in 1..Len(last.before) :
       last.before[i].id = last.id /\ IsPending(last.before[i])
  /\ \E i \in 1..Len(translations) : IsPending(translations[i])

\* C6: after a correction of an existing record, that record is not in the
\* list of validated translations and is among the pending records that
\* getRandomPendingTranslation can return.
C6_CorrectionRequeues ==
  (/\ last.op = "update"
   /\ HasId(last.before, last.id)
   /\ IsCorrection(last.upd))
    => /\ \A i \in 1..Len(translations) :
            translations[i].id = last.id => ~IsValidated(translations[i])
       /\ \E i \in 1..Len(translations) :
            /\ translations[i].id = last.id
            /\ IsPending(translations[i])

\* C7: getRandomPendingTranslation returns a stored record whose status is
\* pending when there is one, returns nothing exactly when there is none,
\* and leaves the store as it was.
C7_RandomPending ==
  (last.op = "getRandomPending")
    => /\ translations = last.before
       /\ (last.ret = <<>>) <=>
            (\A i \in 1..Len(translations) : ~IsPending(translations[i]))
       /\ last.ret # <<>> =>
            /\ Len(last.ret) = 1
            /\ IsPending(last.ret[1])
            /\ \E i \in 1..Len(translations) : translations[i] = last.ret[1]

C7_Witness ==
  /\ last.op = "getRandomPending"
  /\ last.ret # <<>>
  /\ \E i \in 1..Len(translations) : IsValidated(translations[i])
  /\ Len(SelectSeq(translations, IsPending)) = 1

\* C9: importing the text that the export returns leaves the number of
\* records unchanged.
C9_RoundTripAddsNothing ==
  (last.op = "import" /\ last.src = "export")
    => Len(translations) = Len(last.before)

C10Opt(x) == IF x = NULL THEN <<>> ELSE <<x>>

C10Row(r) ==
  <<QT>> \o r.wolof \o <<QT, CM, QT>> \o r.french \o <<QT, CM>>
    \o <<r.status, CM>> \o C10Opt(r.validatedBy) \o <<CM>>
    \o C10Opt(r.correctedBy) \o <<CM>> \o ToISOString(r.lastUpdated)

RECURSIVE C10Rows(_)
C10Rows(vs) ==
  IF Len(vs) = 0 THEN <<>> ELSE C10Row(Head(vs)) \o <<NL>> \o C10Rows(Tail(vs))

C10Header ==
  <<"Wolof", CM, "French", CM, "Status", CM, "ValidatedBy", CM,
    "CorrectedBy", CM, "LastUpdated">>

C10ScenarioStore ==
  /\ Len(translations) = 2
  /\ translations[1].wolof = <<"salam">>
  /\ translations[1].french = <<"bonjour">>
  /\ translations[1].status = "validated"
  /\ translations[1].validatedBy = "Alwaly"
  /\ translations[1].correctedBy = NULL
  /\ translations[2].wolof = <<"nanga", SP, "def">>
  /\ translations[2].french = <<"comment", SP, "vas-tu">>
  /\ translations[2].status = "pending"

C10ScenarioText ==
  C10Header \o <<NL, QT, "salam", QT, CM, QT, "bonjour", QT, CM, "validated",
                 CM, "Alwaly", CM, CM>>
    \o ToISOString(translations[1].lastUpdated) \o <<NL>>

\* C10 as stated: the export is the header line followed by exactly one line
\* per validated record, each line in the format of the claim.
C10_OneLinePerRecord ==
  (last.op = "export")
    => LET lines == Split(last.ret, NL)
       IN  /\ Len(lines) = Len(ValidatedNow) + 2
           /\ lines[1] = C10Header
           /\ lines[Len(lines)] = <<>>
           /\ \A i \in 1..Len(ValidatedNow) :
                lines[i + 1] = C10Row(ValidatedNow[i])

\* C10 as amended: the export is the header line followed by exactly one row
\* per validated record, in store order, each row in the format of the claim
\* and ended by a newline; the rows are the lines of the text when no
\* validated record holds a newline in wolof or french; the scenario yields
\* the header and the single row of the claim.
C10_OneRowPerRecord ==
  (last.op = "export")
    => /\ last.ret = C10Header \o <<NL>> \o C10Rows(ValidatedNow)
       /\ (\A i \in 1..Len(ValidatedNow) :
             \A k \in 1..Len(ValidatedNow[i].wolof \o ValidatedNow[i].french) :
               (ValidatedNow[i].wolof \o ValidatedNow[i].french)[k] # NL)
            => /\ Len(Split(last.ret, NL)) = Len(ValidatedNow) + 2
               /\ \A i \in 1..Len(ValidatedNow) :
                    Split(last.ret, NL)[i + 1] = C10Row(ValidatedNow[i])
       /\ C10ScenarioStore => last.ret = C10ScenarioText

C10_Witness == last.op = "export" /\ C10ScenarioStore

\* the position of the first comma of a line, 0 when it has none
C11Comma(line) ==
  IF \E i \in 1..Len(line) : line[i] = CM
  THEN CHOOSE i \in 1..Len(line) :
         line[i] = CM /\ \A j \in 1..(i - 1) : line[j] # CM
  ELSE 0

C11Wolof(line) == Trim(SubSeq(line, 1, C11Comma(line) - 1))

C11French(line) == Trim(SubSeq(line, C11Comma(line) + 1, Len(line)))

C11Stored(ts, french, wolof) ==
  \E i \in 1..Len(ts) : ts[i].french = french /\ ts[i].wolof = wolof

\* the pairs (wolof, french) the store holds after the lines are read in turn
RECURSIVE C11Expected(_, _)
C11Expected(lines, acc) ==
  IF Len(lines) = 0 THEN acc
  ELSE LET line == Head(lines)
           inserts == /\ C11Comma(line) > 0
                      /\ C11Wolof(line) # <<>>
                      /\ C11French(line) # <<>>
                      /\ ~C11Stored(acc, C11French(line), C11Wolof(line))
       IN  C11Expected(Tail(lines),
             IF inserts
             THEN Append(acc, [wolof |-> C11Wolof(line),
                               french |-> C11French(line), new |-> TRUE])
             ELSE acc)

RECURSIVE C11Pairs(_)
C11Pairs(ts) ==
  IF Len(ts) = 0 THEN <<>>
  ELSE <<[wolof |-> Head(ts).wolof, french |-> Head(ts).french,
          new |-> FALSE]>> \o C11Pairs(Tail(ts))

\* C11: an import ignores the first line and inserts, for every later line
\* with a comma, the record (text before the first comma, text after it), both
\* trimmed, exactly when both are non-empty and the pair is not stored yet;
\* every inserted record is pending, has originalWolof = wolof and lastUpdated
\* set to the time of the call; no stored record is touched.
C11_ImportRows ==
  (last.op = "import" /\ last.status = "ok" /\ last.src = "file")
    => LET expected == C11Expected(Tail(Split(last.csv, NL)),
                                   C11Pairs(last.before))
       IN  /\ Len(translations) = Len(expected)
           /\ \A i \in 1..Len(last.before) : translations[i] = last.before[i]
           /\ \A i \in (Len(last.before) + 1)..Len(translations) :
                /\ translations[i].wolof = expected[i].wolof
                /\ translations[i].french = expected[i].french
                /\ translations[i].status = "pending"
                /\ translations[i].originalWolof = translations[i].wolof
                /\ translations[i].lastUpdated = last.at

\* C14: no two stored translation records have the same id.
C14_IdsUnique ==
  \A i, j \in 1..Len(translations) :
    i # j => translations[i].id # translations[j].id

\* C15: a step never changes the originalWolof of a stored record; a record
\* an import inserts has originalWolof equal to its wolof; a successful
\* correction of an existing record leaves the corrected text in wolof and a
\* validation leaves wolof as it was.
C15_OriginalWolofKept ==
  [][/\ Len(translations') >= Len(translations)
     /\ \A i \in 1..Len(translations) :
          translations'[i].originalWolof = translations[i].originalWolof
     /\ (last'.op = "import" /\ last' # last)
          => \A i \in (Len(translations) + 1)..Len(translations') :
               translations'[i].originalWolof = translations'[i].wolof
     /\ (/\ last'.op = "update" /\ last' # last /\ last'.status = "ok"
         /\ HasId(translations, last'.id))
          => LET i == findIndex(translations, last'.id)
             IN  translations'[i].wolof =
                   IF IsCorrection(last'.upd) THEN last'.upd.wolof
                   ELSE translations[i].wolof]_vars

C15_Witness ==
  \E i \in 1..Len(translations) :
    /\ translations[i].hasBeenCorrected
    /\ translations[i].status = "validated"
    /\ translations[i].originalWolof = <<"salam">>
    /\ translations[i].wolof = <<"salaam">>

\* C16: an import that fails part-way leaves the collection as it was before
\* the call, and an import that succeeds leaves every row of the text in the
\* store (the stub store keeps nothing).
C16_ImportAllOrNothing ==
  (last.op = "import")
    => /\ last.status # "ok" => translations = last.before
       /\ (last.status = "ok" /\ last.src = "file" /\ backend # "mock")
            => \A k \in 1..Len(DataRows(last.csv)) :
                 \E i \in 1..Len(translations) :
                   /\ translations[i].french = DataRows(last.csv)[k].french
                   /\ translations[i].wolof = DataRows(last.csv)[k].wolof

C16_Witness ==
  /\ last.op = "import"
  /\ last.status = "ImportFailure"
  /\ last.csv = ScenarioCSV
  /\ Len(translations) = 1

C13Count(us, name) == Cardinality({i \in 1..Len(us) : us[i].name = name})

C13Defaults == {"Alwaly", "Serge", "Matar"}

\* C13: after initializeUsers the user collection holds each of Alwaly, Serge
\* and Matar exactly once; the call adds exactly the default names that were
\* missing, keeps every user it found (other names included) as it was, and
\* a second call in a row changes nothing.
C13_InitializeUsersIdempotent ==
  (last.op = "initializeUsers")
    => LET before == getUsers(backend, last.before)
           after == getUsers(backend, users)
       IN  /\ \A name \in C13Defaults : C13Count(after, name) = 1
           /\ Len(after) >= Len(before)
           /\ SubSeq(after, 1, Len(before)) = before
           /\ Len(after) - Len(before) =
                Cardinality({name \in C13Defaults : C13Count(before, name) = 0})
           /\ \A i \in 1..Len(after) : C13Count(after, after[i].name) = 1
           /\ last.twice => after = before

C13_Witness ==
  /\ last.op = "initializeUsers"
  /\ Len(last.before) = 2
  /\ C13Count(last.before, "Awa") = 1
  /\ C13Count(last.before, "Alwaly") = 1
  /\ Len(users) = 4

\* C12: after the same sequence of calls every implementation gives the same
\* answers: the same isDatabaseEmpty, the same number of records in
\* getAllTranslations and getValidatedTranslations, the same outcome of the
\* latest call and the same export text.
C12_BackendsAgree ==
  \A b1, b2 \in Backends :
    /\ isDatabaseEmpty(b1, bridge[b1].ts) = isDatabaseEmpty(b2, bridge[b2].ts)
    /\ Len(getAllTranslations(b1, bridge[b1].ts))
         = Len(getAllTranslations(b2, bridge[b2].ts))
    /\ Len(getValidatedTranslations(b1, bridge[b1].ts))
         = Len(getValidatedTranslations(b2, bridge[b2].ts))
    /\ bridge[b1].status = bridge[b2].status
    /\ exportValidatedTranslationsToCSV(b1, bridge[b1].ts)
         = exportValidatedTranslationsToCSV(b2, bridge[b2].ts)

\* C19: under the review workflow every stored record is pending or
\* validated, and the counters of every screen show corrected = 0 and
\* pending + validated = total.
C19_NeverCorrectedStatus ==
  /\ \A i \in 1..Len(translations) :
       translations[i].status \in {"pending", "validated"}
  /\ \A r \in DOMAIN ui :
       /\ ui[r].stats.corrected = 0
       /\ ui[r].stats.pending + ui[r].stats.validated = ui[r].stats.total

C19_Witness ==
  /\ last.op = "handleCorrect"
  /\ last.status = "ok"
  /\ \E r \in DOMAIN ui :
       /\ ui[r].stats.total = 2
       /\ ui[r].stats.validated = 1
       /\ ui[r].stats.pending = 1
  /\ \E i \in 1..Len(translations) : translations[i].hasBeenCorrected

\* C20: when a reviewer's validation has succeeded, the validated record
\* holds the wolof text that the reviewer's screen showed for it.
C20_ValidatedTextWasShown ==
  (last.op = "handleValidate" /\ last.status = "ok")
    => \A i \in 1..Len(translations) :
         (/\ translations[i].id = last.id
          /\ translations[i].status = "validated"
          /\ translations[i].validatedBy = last.upd.validatedBy)
           => translations[i].wolof = last.ret[1].wolof

\* the store after reviewer x's call and then reviewer y's call, one after
\* the other, on the store both started from
C17Serial(x, y) ==
  LET one == UpdateResult(backend, race.base, race.p[x].id, race.p[x].upd,
                          Len(race.base) + 1, now)
  IN  UpdateResult(backend, one.ts, race.p[y].id, race.p[y].upd,
                   one.nextId, now).ts

\* C17: when two reviewers' updateTranslation calls on one id have both
\* finished, the store equals the store after the two calls in one of the two
\* serial orders, with the same number of records and every status in the enum
C17_LastWriteWins ==
  (/\ \A r \in Reviewers : race.p[r].pc = "done" /\ race.p[r].op = "update"
   /\ race.p[Validator].id = race.p[Corrector].id)
    => /\ translations \in {C17Serial(Validator, Corrector),
                            C17Serial(Corrector, Validator)}
       /\ Len(translations) = Len(race.base)
       /\ \A i \in 1..Len(translations) :
            translations[i].status \in {"pending", "validated", "corrected"}

\* C18: every call of a store operation eventually returns or fails, and a
\* started data initializer eventually signals onInitialized
C18_NoCallBlocks ==
  /\ (call.pc \in {"called", "opened"}) ~> (call.pc \in {"returned", "failed"})
  /\ (call.initializer = "running") ~> (call.initializer = "signalled")

\* the outcome of one finished call c, run alone on store ts
C21Alone(c, ts, key) ==
  IF c.op = "import"
  THEN LET after == ImportResult(backend, ts, c.csv, key, now)
       IN  Outcome(after, "ok",
                   IF backend \in {"indexeddb", "sqlite"}
                   THEN key + (Len(after) - Len(ts)) ELSE key)
  ELSE UpdateResult(backend, ts, c.id, c.upd, key, now)

\* the store after reviewer x's call and then reviewer y's call
C21Serial(x, y) ==
  LET one == C21Alone(race.p[x], race.base,
                      IF backend \in {"indexeddb", "sqlite"}
                      THEN Len(race.base) + 1 ELSE 1)
  IN  C21Alone(race.p[y], one.ts, one.nextId).ts

\* the two calls are updates of different ids, or an update and an import
C21Case ==
  /\ \A r \in Reviewers : race.p[r].pc = "done"
  /\ \E r \in Reviewers : race.p[r].op = "update"
  /\ \/ \E r \in Reviewers : race.p[r].op = "import"
     \/ race.p[Validator].id # race.p[Corrector].id

\* C21: when two updates of different ids, or an update and an import, have
\* both finished, the store holds the effect of both: it equals the store
\* after the two calls in one of the two serial orders
C21_NoInterference ==
  C21Case => translations \in {C21Serial(Validator, Corrector),
                               C21Serial(Corrector, Validator)}

\* the names the login form of a page can offer
C22Names == {defaultUsers[i] : i \in 1..Len(defaultUsers)}

\* C22: the review screen is rendered only for an initialized page whose
\* currentUser is a listed, non-empty name; a logout leaves the page on the
\* login screen, still initialized; and the validatedBy / correctedBy that
\* handleValidate / handleCorrect send, and every one stored, is such a name
C22_ScreenGating ==
  /\ \A r \in DOMAIN ui :
       (ui[r].mounted \/ Screen(ui[r]) = "TranslationValidator")
         => /\ ui[r].initialized
            /\ ~Falsy(ui[r].currentUser)
            /\ ui[r].currentUser \in C22Names
  /\ last.op = "handleLogout"
       => /\ Screen(ui[last.src]) = "Login"
          /\ ui[last.src].initialized
  /\ last.op = "handleValidate" => ~Falsy(last.upd.validatedBy)
  /\ last.op = "handleCorrect" => ~Falsy(last.upd.correctedBy)
  /\ \A i \in 1..Len(translations) :
       /\ translations[i].status = "validated"
            => ~Falsy(translations[i].validatedBy)
       /\ ("hasBeenCorrected" \in DOMAIN translations[i]
           /\ translations[i].hasBeenCorrected = TRUE)
            => ~Falsy(translations[i].correctedBy)

\* a reviewer has validated a record under a chosen name and then logged out
C22_Witness ==
  /\ last.op = "handleLogout"
  /\ ui[last.src].initialized
  /\ \E i \in 1..Len(translations) :
       /\ translations[i].status = "validated"
       /\ translations[i].validatedBy = last.src

=============================================================================
